---- MODULE Spec2Model ----
(***************************************************************************)
(* The participant / video-track event handling of UDolbyIOSubsystem        *)
(* (DolbyIOInitialization.cpp).  The SDK delivers participant and track     *)
(* events; the subsystem keeps a participant registry, a map of video       *)
(* sinks and maps of buffered track notifications, and broadcasts           *)
(* notifications to the application.                                        *)
(***************************************************************************)
EXTENDS Integers, Sequences, FiniteSets, TLC

VARIABLES
    RemoteParticipants,          \* TMap<FString, FDolbyIOParticipantInfo>
    VideoSinks,                  \* TMap<FString, std::shared_ptr<FVideoSink>>
    BufferedVideoTracks,         \* TMap<FString, TArray<FDolbyIOVideoTrack>>, drained at lines 123-132
    BufferedAddedVideoTracks,    \* TMap<FString, TArray<FDolbyIOVideoTrack>>
    BufferedEnabledVideoTracks,  \* TMap<FString, TArray<FDolbyIOVideoTrack>>
    Trace,                       \* the SDK events handled and the notifications broadcast, in order
    Failed,                      \* an access through TMap::operator[] to a key that is not in the map happened
    RemovedSinks,                \* the sinks removed from VideoSinks, in order: what was unbound from each and what it still shows
    Registered,                  \* the track handlers in use: the lambdas of Initialize(Token) or the Handle overloads
    RemoteParticipantsLock,      \* FCriticalSection: the thread that holds it, or NoThread
    Position,                    \* of each thread: the handler it runs and where it is in it
    Subsystem,                   \* UDolbyIOSubsystem: Sdk, RefreshTokenCb and the token calls in progress
    CppSdk,                      \* ADolbyIoConference::CppSdk, the FSdkAccess: Sdk, RefreshTokenCb, Status
    Module,                      \* FDolbyIOModule: Dlls, and what was loaded and freed so far
    Registration                 \* the chains started at line 96 of Initialize(Token), one per SDK created

dataVars == <<RemoteParticipants, VideoSinks, BufferedVideoTracks, BufferedAddedVideoTracks,
              BufferedEnabledVideoTracks, Trace, Failed, RemovedSinks>>

threadVars == <<Registered, RemoteParticipantsLock, Position>>

\* the variables of the token handling and of FSdkAccess
otherVars == <<Subsystem, CppSdk, Module, Registration>>

vars == <<dataVars, threadVars, otherVars>>

----------------------------------------------------------------------------
(* Bounds and input sets *)

\* the number of SDK events one behaviour handles
MaxEvents == 4

ParticipantIDs == {"p1", "p2"}

RemoteTrackIDs == {"v1", "v2"}

LocalCameraTrackID == "local-camera"

LocalScreenshareTrackID == "local-screenshare"

\* the remote video tracks the SDK announces: both belong to participant p1
VideoTracks == {[TrackID |-> "v1", ParticipantID |-> "p1"],
                [TrackID |-> "v2", ParticipantID |-> "p1"]}

NoStatus == "NoStatus"

\* the SDK's event thread and the game thread
Threads == {"sdk", "game"}

NoThread == "nobody"

Idle == [handler |-> "idle", arg |-> "-", region |-> 0, inside |-> FALSE]

Statuses == {"OnAir"}

None == "-"

\* participant_info of a remote_participant_added / remote_participant_updated event
ParticipantEvents == [user_id : ParticipantIDs, status : Statuses \cup {NoStatus}]

\* the new_enabled and new_disabled lists of a vfs_event: at most one track each
TrackLists == {<<>>} \cup {<<vt>> : vt \in VideoTracks}

VfsEvents == {e \in [new_enabled : TrackLists, new_disabled : TrackLists] :
                  e.new_enabled # <<>> \/ e.new_disabled # <<>>}

\* a null TSharedPtr / TUniquePtr
Null == 0

\* UDolbyIOSubsystem after Initialize(FSubsystemCollectionBase&): no SDK, no
\* refresh callback, no Initialize(Token) dispatched, SetToken not running; and
\* what has happened so far: nothing
NewSubsystem ==
    [Sdk |-> Null, RefreshTokenCb |-> Null, AsyncTasks |-> 0, Invoking |-> Null,
     Calls |-> 0, Initialized |-> 0, Created |-> 0, Chains |-> 0, Requested |-> 0,
     Invoked |-> <<>>, Errors |-> 0]

\* FSdkAccess as ADolbyIoConference's constructor leaves it: Status("Disconnected")
NewSdkAccess ==
    [Sdk |-> FALSE, RefreshTokenCb |-> FALSE, Status |-> "Disconnected",
     Pending |-> <<>>, Calls |-> <<>>, Errors |-> <<>>, Operations |-> 0,
     Requested |-> 0, Invoked |-> <<>>]

\* the platforms the plugin is built for
Platforms == {"Windows", "Mac", "Linux"}

NoPlatform == "none"

\* FDolbyIOModule before StartupModule: Dlls is empty
NewModule ==
    [Platform |-> NoPlatform, Dlls |-> <<>>, Attempts |-> <<>>, Fatal |-> 0,
     Terminated |-> FALSE, Freed |-> <<>>, Shutdowns |-> 0]

----------------------------------------------------------------------------
(* TMap and TArray *)

Contains(Map, Key) == Key \in DOMAIN Map

Emplace(Map, Key, Value) ==
    [k \in DOMAIN Map \cup {Key} |-> IF k = Key THEN Value ELSE Map[k]]

Remove(Map, Key) == [k \in DOMAIN Map \ {Key} |-> Map[k]]

\* TMap::FindOrAdd(Key).Add(Item)
FindOrAddAdd(Map, Key, Item) ==
    Emplace(Map, Key, IF Contains(Map, Key) THEN Append(Map[Key], Item) ELSE <<Item>>)

RemoveAt(Array, i) == SubSeq(Array, 1, i - 1) \o SubSeq(Array, i + 1, Len(Array))

EmptyMap == [k \in {} |-> None]

----------------------------------------------------------------------------
(* The state as one record, so that a handler is a function of the state *)

State ==
    [RemoteParticipants |-> RemoteParticipants,
     VideoSinks |-> VideoSinks,
     BufferedVideoTracks |-> BufferedVideoTracks,
     BufferedAddedVideoTracks |-> BufferedAddedVideoTracks,
     BufferedEnabledVideoTracks |-> BufferedEnabledVideoTracks,
     Trace |-> Trace,
     Failed |-> Failed,
     RemovedSinks |-> RemovedSinks]

Becomes(S) ==
    /\ RemoteParticipants' = S.RemoteParticipants
    /\ VideoSinks' = S.VideoSinks
    /\ BufferedVideoTracks' = S.BufferedVideoTracks
    /\ BufferedAddedVideoTracks' = S.BufferedAddedVideoTracks
    /\ BufferedEnabledVideoTracks' = S.BufferedEnabledVideoTracks
    /\ Trace' = S.Trace
    /\ Failed' = S.Failed
    /\ RemovedSinks' = S.RemovedSinks

Entry(kind, name, TrackID, ParticipantID, Status) ==
    [kind |-> kind, name |-> name, TrackID |-> TrackID, ParticipantID |-> ParticipantID,
     Status |-> Status]

\* the SDK hands an event to its handler
Received(S, name, TrackID, ParticipantID, Status) ==
    [S EXCEPT !.Trace = Append(@, Entry("event", name, TrackID, ParticipantID, Status))]

BroadcastEvent(S, name, TrackID, ParticipantID, Status) ==
    [S EXCEPT !.Trace = Append(@, Entry("broadcast", name, TrackID, ParticipantID, Status))]

\* TMap::operator[] on a key that is not in the map: the handler does not complete
InvalidAccess(S) == [S EXCEPT !.Failed = TRUE]

----------------------------------------------------------------------------
(* FVideoSink: a texture that is created some time after the sink, and the  *)
(* callbacks waiting for it                                                 *)

NewVideoSink == [Texture |-> FALSE, OnCreated |-> <<>>, Materials |-> {}]

\* FVideoSink::BindMaterial: the material shows the texture of the sink
FVideoSink_BindMaterial(Sink, Material) == [Sink EXCEPT !.Materials = @ \cup {Material}]

FVideoSink_UnbindMaterial(Sink, Material) == [Sink EXCEPT !.Materials = @ \ {Material}]

\* a sink that keeps its materials
FVideoSink_KeepMaterials(Sink) == Sink

FVideoSink_UnbindAllMaterials(Sink) == [Sink EXCEPT !.Materials = {}]

\* VideoSinks.Remove(TrackID) after Sink.UnbindAllMaterials(), lines 434-435 (and
\* 223-224); the sink object lives on while the SDK holds it
UnbindAndRemove(S, TrackID) ==
    LET Sink == S.VideoSinks[TrackID]
        Unbound == FVideoSink_UnbindAllMaterials(Sink)
    IN  [S EXCEPT !.VideoSinks = Remove(@, TrackID),
                  !.RemovedSinks = Append(@, [TrackID |-> TrackID,
                                              Unbound |-> Sink.Materials \ Unbound.Materials,
                                              Materials |-> Unbound.Materials])]

\* FVideoSink::OnTextureCreated(Callback) on the sink of TrackID
OnTextureCreated(S, TrackID, Callback) ==
    [S EXCEPT !.VideoSinks[TrackID].OnCreated = Append(@, Callback)]

GetTexture(S, VideoTrackID) ==
    IF Contains(S.VideoSinks, VideoTrackID)
    THEN S.VideoSinks[VideoTrackID].Texture
    ELSE FALSE

----------------------------------------------------------------------------
(* Broadcast helpers and the buffered-track replay *)

BroadcastVideoTrackAdded(S, VideoTrack) ==
    BroadcastEvent(S, "VideoTrackAdded", VideoTrack.TrackID, VideoTrack.ParticipantID, None)

BroadcastVideoTrackEnabled(S, VideoTrack) ==
    BroadcastEvent(S, "VideoTrackEnabled", VideoTrack.TrackID, VideoTrack.ParticipantID, None)

\* the lambda of Handle(remote_video_track_added), line 419
HandleAddedCallback(VideoTrack) ==
    [fn |-> "Handle", AddedTrack |-> VideoTrack, ParticipantID |-> VideoTrack.ParticipantID]

\* the lambda of ProcessBufferedVideoTracks, lines 379-400
BufferedAddedCallback(AddedTrack, ParticipantID) ==
    [fn |-> "ProcessBufferedVideoTracks", AddedTrack |-> AddedTrack,
     ParticipantID |-> ParticipantID]

\* the body of the lambda of ProcessBufferedVideoTracks
RunBufferedAddedCallback(S, Callback) ==
    LET ParticipantID == Callback.ParticipantID
        AddedTrack == Callback.AddedTrack
        S1 == BroadcastVideoTrackAdded(S, AddedTrack)
    IN  IF Contains(S1.BufferedEnabledVideoTracks, ParticipantID)
        THEN LET EnabledTracksRef == S1.BufferedEnabledVideoTracks[ParticipantID]
                 Matching == {i \in 1..Len(EnabledTracksRef) :
                                  EnabledTracksRef[i].TrackID = AddedTrack.TrackID}
             IN  IF Matching = {}
                 THEN S1
                 ELSE LET i == CHOOSE m \in Matching : \A n \in Matching : m <= n
                          S2 == BroadcastVideoTrackEnabled(S1, EnabledTracksRef[i])
                          Rest == RemoveAt(EnabledTracksRef, i)
                      IN  [S2 EXCEPT !.BufferedEnabledVideoTracks =
                               IF Rest = <<>>
                               THEN Remove(@, ParticipantID)
                               ELSE Emplace(@, ParticipantID, Rest)]
        ELSE S1

RunCallback(S, Callback) ==
    IF Callback.fn = "Handle"
    THEN BroadcastVideoTrackAdded(S, Callback.AddedTrack)
    ELSE RunBufferedAddedCallback(S, Callback)

RECURSIVE RunCallbacks(_, _)
RunCallbacks(S, Callbacks) ==
    IF Callbacks = <<>>
    THEN S
    ELSE RunCallbacks(RunCallback(S, Head(Callbacks)), Tail(Callbacks))

\* the texture of the sink exists from now on and the callbacks waiting for it run
CreateTexture(S, TrackID) ==
    IF Contains(S.VideoSinks, TrackID)
    THEN RunCallbacks([S EXCEPT !.VideoSinks[TrackID] = [@ EXCEPT !.Texture = TRUE, !.OnCreated = <<>>]],
                      S.VideoSinks[TrackID].OnCreated)
    ELSE S

\* the for loop of ProcessBufferedVideoTracks, lines 376-401
RECURSIVE RegisterAddedTracks(_, _, _)
RegisterAddedTracks(S, AddedTracks, ParticipantID) ==
    IF AddedTracks = <<>>
    THEN S
    ELSE LET AddedTrack == Head(AddedTracks)
         IN  IF ~Contains(S.VideoSinks, AddedTrack.TrackID)
             THEN InvalidAccess(S)
             ELSE RegisterAddedTracks(
                      OnTextureCreated(S, AddedTrack.TrackID,
                                       BufferedAddedCallback(AddedTrack, ParticipantID)),
                      Tail(AddedTracks), ParticipantID)

ProcessBufferedVideoTracks(S, ParticipantID) ==
    IF Contains(S.BufferedAddedVideoTracks, ParticipantID)
    THEN LET S1 == RegisterAddedTracks(S, S.BufferedAddedVideoTracks[ParticipantID],
                                       ParticipantID)
         IN  IF S1.Failed
             THEN S1
             ELSE [S1 EXCEPT !.BufferedAddedVideoTracks = Remove(@, ParticipantID)]
    ELSE S

----------------------------------------------------------------------------
(* The participant handlers registered by Initialize(Token) *)

ToFDolbyIOParticipantInfo(participant) ==
    [UserID |-> participant.user_id, Status |-> participant.status]

\* lines 123-132: the tracks buffered in BufferedVideoTracks are broadcast and dropped
DrainBufferedVideoTracks(S, UserID) ==
    IF Contains(S.BufferedVideoTracks, UserID)
    THEN LET ParticipantTracks == S.BufferedVideoTracks[UserID]
             Added == [i \in 1..Len(ParticipantTracks) |->
                          Entry("broadcast", "VideoTrackAdded", ParticipantTracks[i].TrackID,
                                ParticipantTracks[i].ParticipantID, None)]
         IN  [S EXCEPT !.Trace = @ \o Added,
                       !.BufferedVideoTracks = Remove(@, UserID)]
    ELSE S

\* a registry that keeps the latest participant only
StoreParticipant_Latest(S, Info) ==
    [S EXCEPT !.RemoteParticipants = Emplace(EmptyMap, Info.UserID, Info)]

\* lines 116-119 and 148-151, under RemoteParticipantsLock: Emplace, and
\* FindOrAdd(UserID) = Info, which leave the map the same
StoreParticipant(S, Info) ==
    [S EXCEPT !.RemoteParticipants = Emplace(@, Info.UserID, Info)]

BroadcastParticipant(S, name, Info) ==
    BroadcastEvent(S, name, None, Info.UserID, Info.Status)

\* the handler without the status check of lines 109-112
remote_participant_added_Unchecked(S, participant) ==
    LET Info == [UserID |-> participant.user_id, Status |-> participant.status]
    IN  [S EXCEPT !.RemoteParticipants = Emplace(@, Info.UserID, Info),
                  !.Trace = Append(@, Entry("broadcast", "ParticipantAdded", None, Info.UserID,
                                            Info.Status))]

remote_participant_added(S, participant) ==
    IF participant.status = NoStatus
    THEN S
    ELSE LET Info == ToFDolbyIOParticipantInfo(participant)
             S1 == StoreParticipant(S, Info)
             S2 == BroadcastParticipant(S1, "ParticipantAdded", Info)
         IN  DrainBufferedVideoTracks(S2, Info.UserID)

remote_participant_updated(S, participant) ==
    IF participant.status = NoStatus
    THEN S
    ELSE LET Info == ToFDolbyIOParticipantInfo(participant)
             S1 == StoreParticipant(S, Info)
         IN  BroadcastParticipant(S1, "ParticipantUpdated", Info)

\* The call of ProcessBufferedVideoTracks: it is made where the handler of
\* remote_participant_added replays the tracks buffered for the participant.
OnParticipantKnown(S, participant) ==
    IF participant.status = NoStatus
    THEN S
    ELSE ProcessBufferedVideoTracks(S, participant.user_id)

----------------------------------------------------------------------------
(* The track handlers: Handle(remote_video_track_added),                    *)
(* Handle(remote_video_track_removed), Handle(utils::vfs_event)             *)

\* lines 410-414 (and 194-198): the sink of the track is created, before the lock is taken
EmplaceVideoSink(S, VideoTrack) ==
    [S EXCEPT !.VideoSinks = Emplace(@, VideoTrack.TrackID, NewVideoSink)]

\* lines 416-426, under RemoteParticipantsLock
AddOrBufferVideoTrack(S, VideoTrack) ==
    IF Contains(S.RemoteParticipants, VideoTrack.ParticipantID)
    THEN IF Contains(S.VideoSinks, VideoTrack.TrackID)
         THEN OnTextureCreated(S, VideoTrack.TrackID, HandleAddedCallback(VideoTrack))
         ELSE InvalidAccess(S)
    ELSE [S EXCEPT !.BufferedAddedVideoTracks =
             FindOrAddAdd(@, VideoTrack.ParticipantID, VideoTrack)]

Handle_remote_video_track_added(S, VideoTrack) ==
    AddOrBufferVideoTrack(EmplaceVideoSink(S, VideoTrack), VideoTrack)

\* a removal that is announced only for a track whose participant is known
Handle_remote_video_track_removed_Known(S, VideoTrack) ==
    IF ~Contains(S.VideoSinks, VideoTrack.TrackID)
    THEN InvalidAccess(S)
    ELSE LET S1 == UnbindAndRemove(S, VideoTrack.TrackID)
         IN  IF Contains(S.RemoteParticipants, VideoTrack.ParticipantID)
             THEN BroadcastEvent(S1, "VideoTrackRemoved", VideoTrack.TrackID,
                                 VideoTrack.ParticipantID, None)
             ELSE S1

Handle_remote_video_track_removed(S, VideoTrack) ==
    IF ~Contains(S.VideoSinks, VideoTrack.TrackID)
    THEN InvalidAccess(S)
    ELSE LET S1 == UnbindAndRemove(S, VideoTrack.TrackID)
         IN  BroadcastEvent(S1, "VideoTrackRemoved", VideoTrack.TrackID,
                            VideoTrack.ParticipantID, None)

\* every enabled track is broadcast at once, whether its texture exists or not
RECURSIVE HandleNewEnabled_NoTextureCheck(_, _)
HandleNewEnabled_NoTextureCheck(S, new_enabled) ==
    IF new_enabled = <<>>
    THEN S
    ELSE HandleNewEnabled_NoTextureCheck(BroadcastVideoTrackEnabled(S, Head(new_enabled)),
                                         Tail(new_enabled))

\* the loop over Event.new_enabled, lines 441-455
RECURSIVE HandleNewEnabled(_, _)
HandleNewEnabled(S, new_enabled) ==
    IF new_enabled = <<>>
    THEN S
    ELSE LET VideoTrack == Head(new_enabled)
             S1 == IF GetTexture(S, VideoTrack.TrackID)
                   THEN BroadcastVideoTrackEnabled(S, VideoTrack)
                   ELSE [S EXCEPT !.BufferedEnabledVideoTracks =
                            FindOrAddAdd(@, VideoTrack.ParticipantID, VideoTrack)]
         IN  HandleNewEnabled(S1, Tail(new_enabled))

\* the loop over Event.new_disabled, lines 456-461
RECURSIVE HandleNewDisabled(_, _)
HandleNewDisabled(S, new_disabled) ==
    IF new_disabled = <<>>
    THEN S
    ELSE LET VideoTrack == Head(new_disabled)
         IN  HandleNewDisabled(
                 BroadcastEvent(S, "VideoTrackDisabled", VideoTrack.TrackID,
                                VideoTrack.ParticipantID, None),
                 Tail(new_disabled))

Handle_vfs_event(S, Event) ==
    HandleNewDisabled(HandleNewEnabled(S, Event.new_enabled), Event.new_disabled)

----------------------------------------------------------------------------
(* The track handlers that Initialize(Token) registers as lambdas *)

\* lines 200-210, under RemoteParticipantsLock
BroadcastOrBufferVideoTrack(S, VideoTrack) ==
    IF Contains(S.RemoteParticipants, VideoTrack.ParticipantID)
    THEN BroadcastEvent(S, "VideoTrackAdded", VideoTrack.TrackID, VideoTrack.ParticipantID,
                        None)
    ELSE [S EXCEPT !.BufferedVideoTracks =
             FindOrAddAdd(@, VideoTrack.ParticipantID, VideoTrack)]

\* lines 190-211
Initialize_remote_video_track_added(S, VideoTrack) ==
    BroadcastOrBufferVideoTrack(EmplaceVideoSink(S, VideoTrack), VideoTrack)

\* lines 250-268: every enabled and every disabled track is broadcast at once
RECURSIVE BroadcastEach(_, _, _)
BroadcastEach(S, name, tracks) ==
    IF tracks = <<>>
    THEN S
    ELSE BroadcastEach(BroadcastEvent(S, name, Head(tracks).TrackID,
                                      Head(tracks).ParticipantID, None),
                       name, Tail(tracks))

Initialize_vfs_event(S, Event) ==
    BroadcastEach(BroadcastEach(S, "VideoTrackEnabled", Event.new_enabled),
                  "VideoTrackDisabled", Event.new_disabled)

----------------------------------------------------------------------------
(* Actions: one per SDK event, and the creation of a sink's texture *)

IsEvent(e) == e.kind = "event"

NumEvents == Len(SelectSeq(Trace, IsEvent))

Running == ~Failed /\ NumEvents < MaxEvents

Init ==
    /\ RemoteParticipants = EmptyMap
    /\ VideoSinks = [t \in {LocalCameraTrackID, LocalScreenshareTrackID} |-> NewVideoSink]
    /\ BufferedVideoTracks = EmptyMap
    /\ BufferedAddedVideoTracks = EmptyMap
    /\ BufferedEnabledVideoTracks = EmptyMap
    /\ Trace = <<>>
    /\ Failed = FALSE
    /\ RemovedSinks = <<>>
    /\ Registered = "Handle"
    /\ RemoteParticipantsLock = NoThread
    /\ Position = [t \in Threads |-> Idle]
    /\ Subsystem = NewSubsystem
    /\ CppSdk = NewSdkAccess
    /\ Module = NewModule
    /\ Registration = <<>>

ParticipantAdded(participant) ==
    /\ UNCHANGED <<threadVars, otherVars>>
    /\ Running
    /\ Becomes(OnParticipantKnown(
                   remote_participant_added(
                       Received(State, "remote_participant_added", None,
                                participant.user_id, participant.status),
                       participant),
                   participant))

ParticipantUpdated(participant) ==
    /\ UNCHANGED <<threadVars, otherVars>>
    /\ Running
    /\ Becomes(remote_participant_updated(
                   Received(State, "remote_participant_updated", None,
                            participant.user_id, participant.status),
                   participant))

\* the SDK announces a track that is not announced at the moment
TrackAdded(VideoTrack) ==
    /\ UNCHANGED <<threadVars, otherVars>>
    /\ Running
    /\ ~Contains(VideoSinks, VideoTrack.TrackID)
    /\ Becomes(Handle_remote_video_track_added(
                   Received(State, "remote_video_track_added", VideoTrack.TrackID,
                            VideoTrack.ParticipantID, None),
                   VideoTrack))

TrackRemoved(VideoTrack) ==
    /\ UNCHANGED <<threadVars, otherVars>>
    /\ Running
    /\ Becomes(Handle_remote_video_track_removed(
                   Received(State, "remote_video_track_removed", VideoTrack.TrackID,
                            VideoTrack.ParticipantID, None),
                   VideoTrack))

\* one entry of the trace per vfs_event: the track of new_enabled, else of new_disabled
VfsTrack(Event) ==
    IF Event.new_enabled # <<>> THEN Head(Event.new_enabled) ELSE Head(Event.new_disabled)

VfsName(Event) ==
    IF Event.new_enabled = <<>> THEN "vfs_event(disabled)"
    ELSE IF Event.new_disabled = <<>> THEN "vfs_event(enabled)"
    ELSE "vfs_event(enabled,disabled)"

VfsEvent(Event) ==
    /\ UNCHANGED <<threadVars, otherVars>>
    /\ Running
    /\ Becomes(Handle_vfs_event(
                   Received(State, VfsName(Event), VfsTrack(Event).TrackID,
                            VfsTrack(Event).ParticipantID, None),
                   Event))

\* the texture of a sink is created (or exists) and the callbacks waiting for it run
TextureCreated(TrackID) ==
    /\ UNCHANGED <<threadVars, otherVars>>
    /\ ~Failed
    /\ Contains(VideoSinks, TrackID)
    /\ ~VideoSinks[TrackID].Texture \/ VideoSinks[TrackID].OnCreated # <<>>
    /\ Becomes(CreateTexture(State, TrackID))

Next ==
    \/ \E participant \in ParticipantEvents : ParticipantAdded(participant)
    \/ \E participant \in ParticipantEvents : ParticipantUpdated(participant)
    \/ \E VideoTrack \in VideoTracks : TrackAdded(VideoTrack)
    \/ \E VideoTrack \in VideoTracks : TrackRemoved(VideoTrack)
    \/ \E Event \in VfsEvents : VfsEvent(Event)
    \/ \E TrackID \in RemoteTrackIDs : TextureCreated(TrackID)

Spec == Init /\ [][Next]_vars

----------------------------------------------------------------------------
(* Reading the trace *)

TrackOf(VideoTrack) == VideoTrack.TrackID

\* the positions of the trace where the notification `name` of TrackID was broadcast
BroadcastsOf(name, TrackID) ==
    {i \in 1..Len(Trace) : /\ Trace[i].kind = "broadcast"
                           /\ Trace[i].name = name
                           /\ Trace[i].TrackID = TrackID}

\* the positions of the trace where the SDK event `name` for TrackID was handled
EventsOf(name, TrackID) ==
    {i \in 1..Len(Trace) : /\ Trace[i].kind = "event"
                           /\ Trace[i].name = name
                           /\ Trace[i].TrackID = TrackID}

EnabledEventsOf(TrackID) ==
    EventsOf("vfs_event(enabled)", TrackID) \cup EventsOf("vfs_event(enabled,disabled)", TrackID)

\* the positions where a participant event with a status for ParticipantID was handled
KnownEventsOf(ParticipantID) ==
    {i \in 1..Len(Trace) : /\ Trace[i].kind = "event"
                           /\ Trace[i].name \in {"remote_participant_added",
                                                 "remote_participant_updated"}
                           /\ Trace[i].ParticipantID = ParticipantID
                           /\ Trace[i].Status # NoStatus}

\* VideoTrack is in the array that Map holds for its participant
BufferedIn(Map, VideoTrack) ==
    /\ Contains(Map, VideoTrack.ParticipantID)
    /\ \E i \in 1..Len(Map[VideoTrack.ParticipantID]) :
           Map[VideoTrack.ParticipantID][i] = VideoTrack

TimesBufferedIn(Map, VideoTrack) ==
    IF Contains(Map, VideoTrack.ParticipantID)
    THEN Cardinality({i \in 1..Len(Map[VideoTrack.ParticipantID]) :
                          Map[VideoTrack.ParticipantID][i] = VideoTrack})
    ELSE 0

\* the texture of the sink of TrackID exists and no callback waits for it
TextureReady(TrackID) ==
    /\ Contains(VideoSinks, TrackID)
    /\ VideoSinks[TrackID].Texture
    /\ VideoSinks[TrackID].OnCreated = <<>>

\* the track was announced once and never removed
AnnouncedOnce(VideoTrack) ==
    /\ Cardinality(EventsOf("remote_video_track_added", VideoTrack.TrackID)) = 1
    /\ EventsOf("remote_video_track_removed", VideoTrack.TrackID) = {}

----------------------------------------------------------------------------
(* The claims *)

\* C1: for a pair (P, T) whose track is announced once and never removed,
\* VideoTrackAdded(T, P) is broadcast at most once, only after both the
\* track-added event and an event that makes P known (participant added or
\* updated with a status) were handled, and exactly once when both were
\* handled and the texture of T is ready.
C1_ExactlyOneTrackAdded ==
    \A VideoTrack \in VideoTracks :
        AnnouncedOnce(VideoTrack) =>
            LET added == BroadcastsOf("VideoTrackAdded", VideoTrack.TrackID)
                announced == EventsOf("remote_video_track_added", VideoTrack.TrackID)
                known == KnownEventsOf(VideoTrack.ParticipantID)
            IN  /\ Cardinality(added) <= 1
                /\ \A i \in added : /\ \E j \in announced : j < i
                                    /\ \E j \in known : j < i
                /\ (known # {} /\ TextureReady(VideoTrack.TrackID))
                       => Cardinality(added) = 1

\* C2: VideoTrackEnabled(T) is never broadcast before VideoTrackAdded(T) was
\* broadcast.
C2_EnabledNeverBeforeAdded ==
    \A TrackID \in RemoteTrackIDs :
        \A i \in BroadcastsOf("VideoTrackEnabled", TrackID) :
            \E j \in BroadcastsOf("VideoTrackAdded", TrackID) : j < i

\* C3: after a remote-video-track-removed event for T, and until the SDK
\* mentions T again, T is in neither buffer map and neither VideoTrackAdded(T)
\* nor VideoTrackEnabled(T) is broadcast.
C3_RemovedTrackIsNotPending ==
    \A VideoTrack \in VideoTracks :
        \A i \in EventsOf("remote_video_track_removed", VideoTrack.TrackID) :
            (\A j \in (i + 1)..Len(Trace) :
                 ~(Trace[j].kind = "event" /\ Trace[j].TrackID = VideoTrack.TrackID))
                => /\ ~BufferedIn(BufferedAddedVideoTracks, VideoTrack)
                   /\ ~BufferedIn(BufferedEnabledVideoTracks, VideoTrack)
                   /\ \A j \in (i + 1)..Len(Trace) :
                          ~(/\ Trace[j].kind = "broadcast"
                            /\ Trace[j].name \in {"VideoTrackAdded", "VideoTrackEnabled"}
                            /\ Trace[j].TrackID = VideoTrack.TrackID)

\* C4: two tracks of one participant that were announced, in this order, before
\* the participant was known have their VideoTrackAdded broadcast in this order.
C4_BufferedTracksReplayedInOrder ==
    \A T1, T2 \in VideoTracks :
        (/\ T1.ParticipantID = T2.ParticipantID
         /\ AnnouncedOnce(T1)
         /\ AnnouncedOnce(T2)
         /\ \E i \in EventsOf("remote_video_track_added", T1.TrackID) :
                \E j \in EventsOf("remote_video_track_added", T2.TrackID) :
                    /\ i < j
                    /\ \A k \in KnownEventsOf(T1.ParticipantID) : j < k)
            => \A j \in BroadcastsOf("VideoTrackAdded", T2.TrackID) :
                   \E i \in BroadcastsOf("VideoTrackAdded", T1.TrackID) : i < j

\* C5: once the texture of T is ready and the track-added event of T has been
\* processed (T is not buffered for an unknown participant), no enabled
\* notification of T is still buffered: it was broadcast as VideoTrackEnabled.
C5_BufferedEnabledIsDelivered ==
    \A VideoTrack \in VideoTracks :
        (/\ AnnouncedOnce(VideoTrack)
         /\ TextureReady(VideoTrack.TrackID)
         /\ ~BufferedIn(BufferedAddedVideoTracks, VideoTrack))
            => ~BufferedIn(BufferedEnabledVideoTracks, VideoTrack)

\* C6: no track is buffered in BufferedAddedVideoTracks for a participant that
\* is in the participant registry.
C6_NothingBufferedForKnownParticipant ==
    \A ParticipantID \in ParticipantIDs :
        Contains(RemoteParticipants, ParticipantID)
            => ~Contains(BufferedAddedVideoTracks, ParticipantID)

\* C7: a video track is never buffered twice in BufferedAddedVideoTracks, and a
\* track whose VideoTrackAdded was broadcast since it was last announced is not
\* buffered there.
C7_DeliveredOrBufferedOnce ==
    \A VideoTrack \in VideoTracks :
        /\ TimesBufferedIn(BufferedAddedVideoTracks, VideoTrack) <= 1
        /\ \A i \in EventsOf("remote_video_track_added", VideoTrack.TrackID) :
               (/\ \A k \in EventsOf("remote_video_track_added", VideoTrack.TrackID) : k <= i
                /\ \E j \in BroadcastsOf("VideoTrackAdded", VideoTrack.TrackID) : i < j)
                   => ~BufferedIn(BufferedAddedVideoTracks, VideoTrack)

\* C10: a remote-video-track-removed event for a track that has no video sink
\* does not fail and leaves the sink map, the participant registry and the
\* buffer maps unchanged.
C10_RemovingUnknownTrackIsNoOp ==
    [][\A VideoTrack \in VideoTracks :
           (TrackRemoved(VideoTrack) /\ ~Contains(VideoSinks, VideoTrack.TrackID))
               => /\ ~Failed'
                  /\ UNCHANGED <<VideoSinks, RemoteParticipants, BufferedVideoTracks,
                                 BufferedAddedVideoTracks, BufferedEnabledVideoTracks>>]_vars

----------------------------------------------------------------------------
(* The handlers step by step, on two threads.  A handler is a sequence of    *)
(* regions: stretches of code that run with RemoteParticipantsLock held      *)
(* (the scope of an FScopeLock) or without it.  A thread enters a region,    *)
(* taking the lock if the region is an FScopeLock scope, and leaves it, at   *)
(* which point the region's effect is applied and the lock released.         *)

\* the number of SDK events one behaviour of SpecThreads handles
MaxThreadEvents == 3

Region(locked, maps) == [locked |-> locked, maps |-> maps]

\* the regions of each handler, with the maps the code of each can read or write
Program(handler) ==
    CASE handler = "remote_participant_added" ->
             <<Region(TRUE, {"RemoteParticipants"}),                    \* 116-119
               Region(FALSE, {}),                                       \* 121
               Region(FALSE, {"BufferedVideoTracks"})>>                 \* 123-132
             \o (IF Registered = "Handle"
                 THEN <<Region(FALSE, {"BufferedAddedVideoTracks", "VideoSinks"})>>  \* 372-404
                 ELSE <<>>)
      [] handler = "remote_participant_updated" ->
             <<Region(TRUE, {"RemoteParticipants"}),                    \* 148-151
               Region(FALSE, {})>>                                      \* 153
      [] handler = "Handle(remote_video_track_added)" ->
             <<Region(FALSE, {"VideoSinks"}),                           \* 410-414
               Region(TRUE, {"RemoteParticipants", "VideoSinks",
                             "BufferedAddedVideoTracks"})>>             \* 416-426
      [] handler = "Initialize(remote_video_track_added)" ->
             <<Region(FALSE, {"VideoSinks"}),                           \* 194-198
               Region(TRUE, {"RemoteParticipants", "BufferedVideoTracks"})>>  \* 200-210
      [] handler = "remote_video_track_removed" ->
             <<Region(FALSE, {"VideoSinks"})>>                          \* 434-436, 223-225
      [] handler = "Handle(vfs_event)" ->
             <<Region(FALSE, {"VideoSinks", "BufferedEnabledVideoTracks"})>>  \* 441-461
      [] handler = "Initialize(vfs_event)" ->
             <<Region(FALSE, {})>>                                      \* 252-267
      [] handler = "texture_created" ->
             <<Region(FALSE, {"VideoSinks", "BufferedEnabledVideoTracks"})>>  \* 379-400, 419
      [] OTHER -> <<>>

\* what region k of the handler does to the state
Effect(S, handler, arg, k) ==
    CASE handler = "remote_participant_added" ->
             LET Info == ToFDolbyIOParticipantInfo(arg)
             IN  CASE k = 1 -> StoreParticipant(S, Info)
                   [] k = 2 -> BroadcastParticipant(S, "ParticipantAdded", Info)
                   [] k = 3 -> DrainBufferedVideoTracks(S, Info.UserID)
                   [] OTHER -> OnParticipantKnown(S, arg)
      [] handler = "remote_participant_updated" ->
             LET Info == ToFDolbyIOParticipantInfo(arg)
             IN  IF k = 1
                 THEN StoreParticipant(S, Info)
                 ELSE BroadcastParticipant(S, "ParticipantUpdated", Info)
      [] handler = "Handle(remote_video_track_added)" ->
             IF k = 1 THEN EmplaceVideoSink(S, arg) ELSE AddOrBufferVideoTrack(S, arg)
      [] handler = "Initialize(remote_video_track_added)" ->
             IF k = 1 THEN EmplaceVideoSink(S, arg) ELSE BroadcastOrBufferVideoTrack(S, arg)
      [] handler = "remote_video_track_removed" -> Handle_remote_video_track_removed(S, arg)
      [] handler = "Handle(vfs_event)" -> Handle_vfs_event(S, arg)
      [] handler = "Initialize(vfs_event)" -> Initialize_vfs_event(S, arg)
      [] handler = "texture_created" -> CreateTexture(S, arg)
      [] OTHER -> S

InitThreads ==
    /\ RemoteParticipants = EmptyMap
    /\ VideoSinks = [t \in {LocalCameraTrackID, LocalScreenshareTrackID} |-> NewVideoSink]
    /\ BufferedVideoTracks = EmptyMap
    /\ BufferedAddedVideoTracks = EmptyMap
    /\ BufferedEnabledVideoTracks = EmptyMap
    /\ Trace = <<>>
    /\ Failed = FALSE
    /\ RemovedSinks = <<>>
    /\ Registered \in {"Initialize", "Handle"}
    /\ RemoteParticipantsLock = NoThread
    /\ Position = [t \in Threads |-> Idle]
    /\ Subsystem = NewSubsystem
    /\ CppSdk = NewSdkAccess
    /\ Module = NewModule
    /\ Registration = <<>>

\* the SDK's event thread is free, and the run may take another event
SdkReady ==
    /\ ~Failed
    /\ Position["sdk"] = Idle
    /\ NumEvents < MaxThreadEvents

\* thread t starts the handler: it stands before the handler's first region
Starts(t, handler, arg) ==
    /\ Position' = [Position EXCEPT ![t] =
                        [handler |-> handler, arg |-> arg, region |-> 1, inside |-> FALSE]]
    /\ UNCHANGED <<Registered, RemoteParticipantsLock, otherVars>>

StartParticipantEvent(name, participant) ==
    /\ SdkReady
    /\ Becomes(Received(State, name, None, participant.user_id, participant.status))
    /\ IF participant.status = NoStatus
       THEN UNCHANGED <<threadVars, otherVars>>                                      \* lines 109-112, 141-144
       ELSE Starts("sdk", name, participant)

StartParticipantAdded(participant) ==
    StartParticipantEvent("remote_participant_added", participant)

StartParticipantUpdated(participant) ==
    StartParticipantEvent("remote_participant_updated", participant)

StartTrackAdded(VideoTrack) ==
    /\ SdkReady
    /\ ~Contains(VideoSinks, VideoTrack.TrackID)
    /\ Becomes(Received(State, "remote_video_track_added", VideoTrack.TrackID,
                        VideoTrack.ParticipantID, None))
    /\ Starts("sdk", IF Registered = "Handle"
                     THEN "Handle(remote_video_track_added)"
                     ELSE "Initialize(remote_video_track_added)", VideoTrack)

StartTrackRemoved(VideoTrack) ==
    /\ SdkReady
    /\ Becomes(Received(State, "remote_video_track_removed", VideoTrack.TrackID,
                        VideoTrack.ParticipantID, None))
    /\ Starts("sdk", "remote_video_track_removed", VideoTrack)

StartVfsEvent(Event) ==
    /\ SdkReady
    /\ Becomes(Received(State, VfsName(Event), VfsTrack(Event).TrackID,
                        VfsTrack(Event).ParticipantID, None))
    /\ Starts("sdk", IF Registered = "Handle" THEN "Handle(vfs_event)"
                     ELSE "Initialize(vfs_event)", Event)

\* the game thread turns to a sink whose texture is missing or awaited
StartTextureCreated(TrackID) ==
    /\ ~Failed
    /\ Position["game"] = Idle
    /\ Contains(VideoSinks, TrackID)
    /\ ~VideoSinks[TrackID].Texture \/ VideoSinks[TrackID].OnCreated # <<>>
    /\ Starts("game", "texture_created", TrackID)
    /\ UNCHANGED dataVars

CurrentRegion(t) == Program(Position[t].handler)[Position[t].region]

\* t enters its next region; an FScopeLock waits until the lock is free
Enter(t) ==
    /\ ~Failed
    /\ Position[t] # Idle
    /\ ~Position[t].inside
    /\ CurrentRegion(t).locked => RemoteParticipantsLock = NoThread
    /\ RemoteParticipantsLock' = IF CurrentRegion(t).locked THEN t ELSE RemoteParticipantsLock
    /\ Position' = [Position EXCEPT ![t].inside = TRUE]
    /\ UNCHANGED <<dataVars, Registered, otherVars>>

\* t leaves the region it is in: the region's code has run
Leave(t) ==
    /\ ~Failed
    /\ Position[t].inside
    /\ LET S == Effect(State, Position[t].handler, Position[t].arg, Position[t].region)
       IN  /\ Becomes(S)
           /\ Position' = [Position EXCEPT ![t] =
                  IF S.Failed \/ Position[t].region = Len(Program(Position[t].handler))
                  THEN Idle
                  ELSE [@ EXCEPT !.region = @ + 1, !.inside = FALSE]]
    /\ RemoteParticipantsLock' = IF CurrentRegion(t).locked THEN NoThread
                                 ELSE RemoteParticipantsLock
    /\ UNCHANGED <<Registered, otherVars>>

NextThreads ==
    \/ \E participant \in ParticipantEvents : StartParticipantAdded(participant)
    \/ \E participant \in ParticipantEvents : StartParticipantUpdated(participant)
    \/ \E VideoTrack \in VideoTracks : StartTrackAdded(VideoTrack)
    \/ \E VideoTrack \in VideoTracks : StartTrackRemoved(VideoTrack)
    \/ \E Event \in VfsEvents : StartVfsEvent(Event)
    \/ \E TrackID \in RemoteTrackIDs : StartTextureCreated(TrackID)
    \/ \E t \in Threads : Enter(t)
    \/ \E t \in Threads : Leave(t)

SpecThreads == InitThreads /\ [][NextThreads]_vars

\* the maps that RemoteParticipantsLock is meant to protect
ProtectedMaps == {"RemoteParticipants", "BufferedVideoTracks", "BufferedAddedVideoTracks",
                  "BufferedEnabledVideoTracks"}

\* the maps that region k of the handler reads or writes in state S: those of
\* Program, less the ones its branches do not reach with this argument
Touches(S, handler, arg, k) ==
    CASE handler = "Handle(vfs_event)" ->
             (IF arg.new_enabled # <<>> THEN {"VideoSinks"} ELSE {})                \* 445
             \cup (IF \E i \in 1..Len(arg.new_enabled) :
                          ~GetTexture(S, arg.new_enabled[i].TrackID)
                   THEN {"BufferedEnabledVideoTracks"}                               \* 453
                   ELSE {})
      [] handler = "texture_created" ->
             {"VideoSinks"}
             \cup (IF /\ Contains(S.VideoSinks, arg)
                      /\ \E i \in 1..Len(S.VideoSinks[arg].OnCreated) :
                             S.VideoSinks[arg].OnCreated[i].fn = "ProcessBufferedVideoTracks"
                   THEN {"BufferedEnabledVideoTracks"}                               \* 383-395
                   ELSE {})
      [] OTHER -> Program(handler)[k].maps

\* the protected maps that thread t is reading or writing
Accessing(t) ==
    IF Position[t].inside
    THEN Touches(State, Position[t].handler, Position[t].arg, Position[t].region)
             \cap ProtectedMaps
    ELSE {}

\* C8: a thread that reads or writes the participant registry or a buffer map
\* holds RemoteParticipantsLock, so no two threads are in these maps at once.
C8_MapsAccessedUnderLock ==
    /\ \A t \in Threads : Accessing(t) # {} => RemoteParticipantsLock = t
    /\ \A t, u \in Threads : t # u => Accessing(t) \cap Accessing(u) = {}

\* C9: a thread that holds RemoteParticipantsLock neither broadcasts a
\* notification nor registers a callback that broadcasts one: the region it
\* leaves with the lock held added no broadcast to the trace and no callback to
\* a sink.
C9_NoBroadcastUnderLock ==
    [][\A t \in Threads :
           (Leave(t) /\ RemoteParticipantsLock = t)
               => /\ \A i \in (Len(Trace) + 1)..Len(Trace') : Trace'[i].kind # "broadcast"
                  /\ \A TrackID \in DOMAIN VideoSinks \cap DOMAIN VideoSinks' :
                         Len(VideoSinks'[TrackID].OnCreated)
                             <= Len(VideoSinks[TrackID].OnCreated)]_vars

----------------------------------------------------------------------------
(* Further claims about the event handlers *)

\* the entries that a step appends to the trace
NewEntries == SubSeq(Trace', Len(Trace) + 1, Len(Trace'))

\* C11: a remote-video-track-removed event for an announced track (one that has
\* a video sink) broadcasts VideoTrackRemoved for it exactly once, whether its
\* VideoTrackAdded was broadcast or the track is still buffered.
C11_RemovedIsBroadcastOnce ==
    [][\A VideoTrack \in VideoTracks :
           (TrackRemoved(VideoTrack) /\ Contains(VideoSinks, VideoTrack.TrackID))
               => NewEntries = <<Entry("event", "remote_video_track_removed",
                                       VideoTrack.TrackID, VideoTrack.ParticipantID, None),
                                 Entry("broadcast", "VideoTrackRemoved",
                                       VideoTrack.TrackID, VideoTrack.ParticipantID, None)>>]_vars

\* a track was removed, and announced as removed, while it was buffered for an
\* unknown participant
C11_Witness ==
    \E VideoTrack \in VideoTracks :
        /\ Cardinality(EventsOf("remote_video_track_removed", VideoTrack.TrackID)) = 1
        /\ Cardinality(BroadcastsOf("VideoTrackRemoved", VideoTrack.TrackID)) = 1
        /\ BroadcastsOf("VideoTrackAdded", VideoTrack.TrackID) = {}
        /\ BufferedIn(BufferedAddedVideoTracks, VideoTrack)

TimesIn(Array, TrackID) ==
    Cardinality({i \in 1..Len(Array) : Array[i].TrackID = TrackID})

BufferedEnabledOf(Map, ParticipantID) ==
    IF Contains(Map, ParticipantID) THEN Map[ParticipantID] ELSE <<>>

\* C13: when the buffered added tracks of P are replayed, the pending-added map
\* has no entry for P after the call; and each replayed track T that has a
\* matching buffered enabled notification gets VideoTrackEnabled(T) broadcast
\* right after its VideoTrackAdded(T), and that one notification leaves the
\* buffered enabled tracks.
C13_ReplayAddedThenEnabled ==
    [][/\ \A participant \in ParticipantEvents :
              (ParticipantAdded(participant) /\ participant.status # NoStatus)
                  => ~Contains(BufferedAddedVideoTracks', participant.user_id)
       /\ \A VideoTrack \in VideoTracks :
              (/\ TextureCreated(VideoTrack.TrackID)
               /\ VideoSinks[VideoTrack.TrackID].OnCreated # <<>>
               /\ \A i \in 1..Len(VideoSinks[VideoTrack.TrackID].OnCreated) :
                      VideoSinks[VideoTrack.TrackID].OnCreated[i]
                          = BufferedAddedCallback(VideoTrack, VideoTrack.ParticipantID))
                  => LET Replayed == Len(VideoSinks[VideoTrack.TrackID].OnCreated)
                         Before == BufferedEnabledOf(BufferedEnabledVideoTracks,
                                                     VideoTrack.ParticipantID)
                         After == BufferedEnabledOf(BufferedEnabledVideoTracks',
                                                    VideoTrack.ParticipantID)
                         Matching == TimesIn(Before, VideoTrack.TrackID)
                         Pairs == IF Matching < Replayed THEN Matching ELSE Replayed
                         Added == Entry("broadcast", "VideoTrackAdded", VideoTrack.TrackID,
                                        VideoTrack.ParticipantID, None)
                         Enabled == Entry("broadcast", "VideoTrackEnabled", VideoTrack.TrackID,
                                          VideoTrack.ParticipantID, None)
                     IN  /\ Len(NewEntries) = Replayed + Pairs
                         /\ \A j \in 1..Pairs : /\ NewEntries[2 * j - 1] = Added
                                                /\ NewEntries[2 * j] = Enabled
                         /\ \A j \in (2 * Pairs + 1)..Len(NewEntries) : NewEntries[j] = Added
                         /\ TimesIn(After, VideoTrack.TrackID) = Matching - Pairs]_vars

\* C14: a participant that is in RemoteParticipants stays in it: no handler
\* removes a record.
C14_RegistryOnlyGrows ==
    [][\A ParticipantID \in ParticipantIDs :
           Contains(RemoteParticipants, ParticipantID)
               => Contains(RemoteParticipants', ParticipantID)]_vars

\* both participants are in the registry, one of them stored twice
C14_Witness ==
    /\ \A ParticipantID \in ParticipantIDs : Contains(RemoteParticipants, ParticipantID)
    /\ \E ParticipantID \in ParticipantIDs : Cardinality(KnownEventsOf(ParticipantID)) >= 2

\* C18: a participant-added or participant-updated event without a status
\* changes no participant record, broadcasts nothing and replays no buffered
\* track.
C18_NoStatusIsIgnored ==
    [][\A participant \in ParticipantEvents :
           (/\ participant.status = NoStatus
            /\ ParticipantAdded(participant) \/ ParticipantUpdated(participant))
               => /\ Len(NewEntries) = 1
                  /\ NewEntries[1].kind = "event"
                  /\ UNCHANGED <<RemoteParticipants, VideoSinks, BufferedVideoTracks,
                                 BufferedAddedVideoTracks, BufferedEnabledVideoTracks,
                                 Failed>>]_vars

\* an event without a status was handled for a participant that has a
\* buffered track, and the track is still buffered
C18_Witness ==
    \E i \in 1..Len(Trace) :
        /\ Trace[i].kind = "event"
        /\ Trace[i].name \in {"remote_participant_added", "remote_participant_updated"}
        /\ Trace[i].Status = NoStatus
        /\ i > 1
        /\ Contains(BufferedAddedVideoTracks, Trace[i].ParticipantID)
        /\ ~Contains(RemoteParticipants, Trace[i].ParticipantID)

----------------------------------------------------------------------------
(* FSdkAccess: the connection status, Initialize, Connect, Disconnect, the   *)
(* mute calls, UpdateViewPoint and RefreshToken, and the asynchronous chains *)
(* of SDK calls they start.  CppSdk.Pending holds, for each chain that is    *)
(* under way, the SDK call it is waiting for.                                *)

\* the number of FSdkAccess member calls in one behaviour of SpecSdkAccess
MaxOperations == 5

ConferenceNames == {"", "unreal", "demo"}

UserNames == {"", "unreal"}

\* FSdkStatus
OnDisconnected(A) == [A EXCEPT !.Status = "Disconnected"]

OnConnecting(A) == [A EXCEPT !.Status = "Connecting"]

OnConnected(A) == [A EXCEPT !.Status = "Connected"]

OnDisconnecting(A) == [A EXCEPT !.Status = "Disconnecting"]

IsDisconnected(A) == A.Status = "Disconnected"

IsConnected(A) == A.Status = "Connected"

\* DLB_CATCH_ALL and DLB_HANDLE_ASYNC_EXCEPTION: the exception is caught and reported
CatchAll(A, what) == [A EXCEPT !.Errors = Append(@, what)]

\* a call into the SDK, with the status at the time of the call
SdkCall(A, call) == [A EXCEPT !.Calls = Append(@, [call |-> call, Status |-> A.Status])]

\* an SDK call that returns a future: the chain `op` goes on when it completes
Async(A, op, call) == [SdkCall(A, call) EXCEPT !.Pending = Append(@, [op |-> op, call |-> call])]

\* one more member call was made
Called(A) == [A EXCEPT !.Operations = @ + 1]

\* FSdkAccess::Initialize; `created` tells whether sdk::create returns or throws.
\* The chains of the SDK instance that Sdk.Reset() destroys end with it.
FSdkAccess_Initialize(A, created) ==
    LET A1 == [OnDisconnected(A) EXCEPT !.Sdk = FALSE, !.RefreshTokenCb = FALSE,
                                        !.Pending = <<>>]
    IN  IF created
        THEN [A1 EXCEPT !.Sdk = TRUE]
        ELSE CatchAll(A1, "sdk::create")

\* Connect that does not look at the status
FSdkAccess_Connect_AnyStatus(A, Conf, User) ==
    IF ~A.Sdk
    THEN CatchAll(A, "Must initialize SDK first")
    ELSE IF Conf = "" \/ User = ""
    THEN CatchAll(A, "Conference name and user name cannot be empty")
    ELSE Async(OnConnecting(A), IF Conf = "demo" THEN "demo" ELSE "connect", "session.open")

\* FSdkAccess::Connect, and ConnectToDemoConference up to its first SDK call
FSdkAccess_Connect(A, Conf, User) ==
    IF ~A.Sdk
    THEN CatchAll(A, "Must initialize SDK first")
    ELSE IF Conf = "" \/ User = ""
    THEN CatchAll(A, "Conference name and user name cannot be empty")
    ELSE IF ~IsDisconnected(A)
    THEN CatchAll(A, "Must disconnect first")
    ELSE Async(OnConnecting(A), IF Conf = "demo" THEN "demo" ELSE "connect", "session.open")

\* Disconnect without DLB_MUST_BE_CONNECTED
FSdkAccess_Disconnect_Unchecked(A) ==
    Async(OnDisconnecting(A), "disconnect", "conference.leave")

FSdkAccess_Disconnect(A) ==
    IF ~IsConnected(A)
    THEN A
    ELSE Async(OnDisconnecting(A), "disconnect", "conference.leave")

FSdkAccess_MuteInput(A) ==
    IF ~IsConnected(A) THEN A ELSE Async(A, "mute", "conference.mute")

FSdkAccess_MuteOutput(A) ==
    IF ~IsConnected(A) THEN A ELSE Async(A, "mute_output", "conference.mute_output")

FSdkAccess_UpdateViewPoint(A) ==
    IF ~IsConnected(A)
    THEN A
    ELSE Async(A, "update", "conference.update_spatial_audio_configuration")

\* FSdkAccess::RefreshToken; the callback stored is the one of the SDK's latest
\* request, and A.Invoked lists the callbacks called, by the number of their request
FSdkAccess_RefreshToken(A, created) ==
    IF A.RefreshTokenCb
    THEN [SdkCall(A, "refresh_token") EXCEPT !.Invoked = Append(@, A.Requested)]
    ELSE FSdkAccess_Initialize(A, created)

\* the lambda given to sdk::create, lines 696-700
FSdkAccess_RefreshTokenRequested(A) ==
    [A EXCEPT !.RefreshTokenCb = TRUE, !.Requested = @ + 1]

\* the continuation (.then) of chain i once its SDK call has completed
Then(A, i) ==
    LET c == A.Pending[i]
        Rest == [A EXCEPT !.Pending = RemoveAt(@, i)]
        Goes(call) == [SdkCall(A, call) EXCEPT !.Pending[i].call = call]
    IN  CASE c.op = "connect" /\ c.call = "session.open" -> Goes("conference.create")
          [] c.op = "connect" /\ c.call = "conference.create" -> Goes("conference.join")
          [] c.op = "connect" /\ c.call = "conference.join" -> OnConnected(Rest)
          [] c.op = "demo" /\ c.call = "session.open" -> Goes("conference.demo")
          [] c.op = "demo" /\ c.call = "conference.demo" ->
                 SdkCall(OnConnected(Rest), "conference.add_event_handler")
          [] c.op = "disconnect" /\ c.call = "conference.leave" -> Goes("session.close")
          [] c.op = "disconnect" /\ c.call = "session.close" -> OnDisconnected(Rest)
          [] OTHER -> Rest

\* .on_error(DLB_HANDLE_ASYNC_EXCEPTION): the chain ends
OnError(A, i) == CatchAll([A EXCEPT !.Pending = RemoveAt(@, i)], A.Pending[i].call)

MayCall == CppSdk.Operations < MaxOperations

OnlyCppSdk == UNCHANGED <<dataVars, threadVars, Subsystem, Module, Registration>>

SdkInitialize(created) ==
    /\ MayCall
    /\ CppSdk' = Called(FSdkAccess_Initialize(CppSdk, created))
    /\ OnlyCppSdk

Connect(Conf, User) ==
    /\ MayCall
    /\ CppSdk' = Called(FSdkAccess_Connect(CppSdk, Conf, User))
    /\ OnlyCppSdk

Disconnect ==
    /\ MayCall
    /\ CppSdk' = Called(FSdkAccess_Disconnect(CppSdk))
    /\ OnlyCppSdk

MuteInput ==
    /\ MayCall
    /\ CppSdk' = Called(FSdkAccess_MuteInput(CppSdk))
    /\ OnlyCppSdk

MuteOutput ==
    /\ MayCall
    /\ CppSdk' = Called(FSdkAccess_MuteOutput(CppSdk))
    /\ OnlyCppSdk

UpdateViewPoint ==
    /\ MayCall
    /\ CppSdk' = Called(FSdkAccess_UpdateViewPoint(CppSdk))
    /\ OnlyCppSdk

RefreshToken(created) ==
    /\ MayCall
    /\ CppSdk' = Called(FSdkAccess_RefreshToken(CppSdk, created))
    /\ OnlyCppSdk

\* the SDK asks for a new token
RefreshTokenRequested ==
    /\ CppSdk.Sdk
    /\ ~CppSdk.RefreshTokenCb
    /\ CppSdk' = FSdkAccess_RefreshTokenRequested(CppSdk)
    /\ OnlyCppSdk

\* the SDK call that chain i waits for completes, or fails
Completes(i, ok) ==
    /\ i \in 1..Len(CppSdk.Pending)
    /\ CppSdk' = IF ok THEN Then(CppSdk, i) ELSE OnError(CppSdk, i)
    /\ OnlyCppSdk

NextSdkAccess ==
    \/ \E created \in BOOLEAN : SdkInitialize(created)
    \/ \E Conf \in ConferenceNames, User \in UserNames : Connect(Conf, User)
    \/ Disconnect
    \/ MuteInput
    \/ MuteOutput
    \/ UpdateViewPoint
    \/ \E created \in BOOLEAN : RefreshToken(created)
    \/ RefreshTokenRequested
    \/ \E i \in 1..MaxOperations, ok \in BOOLEAN : Completes(i, ok)

SpecSdkAccess == Init /\ [][NextSdkAccess]_vars

\* the status changes of the connection cycle
Cycle == {<<"Disconnected", "Connecting">>, <<"Connecting", "Connected">>,
          <<"Connected", "Disconnecting">>, <<"Disconnecting", "Disconnected">>}

\* C15: the connection status changes only along the cycle disconnected ->
\* connecting -> connected -> disconnecting -> disconnected, whatever sequence
\* of Initialize, Connect, Disconnect, RefreshToken calls and SDK completions
\* takes place.
C15_StatusFollowsCycle ==
    [][CppSdk'.Status # CppSdk.Status => <<CppSdk.Status, CppSdk'.Status>> \in Cycle]_vars

\* C16: Connect is rejected with an error, leaves the status as it is and
\* makes no SDK call when the SDK is not initialized, a name is empty or the
\* status is not disconnected; otherwise the status becomes connecting and the
\* session is opened.
C16_ConnectIsChecked ==
    [][\A Conf \in ConferenceNames, User \in UserNames :
           Connect(Conf, User)
               => IF ~CppSdk.Sdk \/ Conf = "" \/ User = "" \/ CppSdk.Status # "Disconnected"
                  THEN /\ Len(CppSdk'.Errors) = Len(CppSdk.Errors) + 1
                       /\ CppSdk'.Status = CppSdk.Status
                       /\ CppSdk'.Calls = CppSdk.Calls
                       /\ CppSdk'.Pending = CppSdk.Pending
                       /\ CppSdk'.Sdk = CppSdk.Sdk
                  ELSE /\ CppSdk'.Status = "Connecting"
                       /\ CppSdk'.Errors = CppSdk.Errors
                       /\ CppSdk'.Calls = Append(CppSdk.Calls, [call |-> "session.open",
                                                                Status |-> "Connecting"])]_vars

\* Connect was rejected for each of the three reasons, and accepted once
C16_Witness ==
    /\ \A what \in {"Must initialize SDK first",
                    "Conference name and user name cannot be empty",
                    "Must disconnect first"} :
           \E i \in 1..Len(CppSdk.Errors) : CppSdk.Errors[i] = what
    /\ \E i \in 1..Len(CppSdk.Calls) : CppSdk.Calls[i].call = "session.open"

\* C17: Disconnect, MuteInput, MuteOutput and UpdateViewPoint make no SDK call
\* and change nothing unless the status is connected; Disconnect sets the
\* status to disconnecting before it calls leave, and its chain sets it to
\* disconnected only when session close, called after leave completed, has
\* completed.
C17_MustBeConnected ==
    [][/\ (/\ CppSdk.Status # "Connected"
           /\ Disconnect \/ MuteInput \/ MuteOutput \/ UpdateViewPoint)
              => CppSdk' = Called(CppSdk)
       /\ (Disconnect /\ CppSdk.Status = "Connected")
              => /\ CppSdk'.Status = "Disconnecting"
                 /\ CppSdk'.Calls = Append(CppSdk.Calls, [call |-> "conference.leave",
                                                          Status |-> "Disconnecting"])
       /\ \A i \in 1..Len(CppSdk.Pending) :
              (Completes(i, TRUE) /\ CppSdk.Pending[i].op = "disconnect")
                  => IF CppSdk.Pending[i].call = "conference.leave"
                     THEN /\ CppSdk'.Status = CppSdk.Status
                          /\ CppSdk'.Calls[Len(CppSdk'.Calls)].call = "session.close"
                     ELSE /\ CppSdk.Pending[i].call = "session.close"
                          /\ CppSdk'.Status = "Disconnected"]_vars

\* a Disconnect ran its course from connected to disconnected, and a call that
\* needs the connection was made, and ignored, afterwards
C17_Witness ==
    /\ CppSdk.Status = "Disconnected"
    /\ \E i, j \in 1..Len(CppSdk.Calls) :
           /\ i < j
           /\ CppSdk.Calls[i].call = "conference.leave"
           /\ CppSdk.Calls[j].call = "session.close"
           /\ j = Len(CppSdk.Calls)
    /\ CppSdk.Pending = <<>>
    /\ CppSdk.Operations > 3

----------------------------------------------------------------------------
(* UDolbyIOSubsystem::SetToken and Initialize(Token).  Subsystem.Sdk is the  *)
(* SDK instance that Sdk points to (they are numbered as they are created),  *)
(* Subsystem.RefreshTokenCb the refresh callback stored (numbered as the SDK *)
(* hands them over), Subsystem.AsyncTasks the number of Initialize(Token)    *)
(* tasks dispatched and not yet run, and Subsystem.Invoking the callback     *)
(* that SetToken has invoked at line 67 while it has not reached line 73.    *)

\* the number of SetToken calls in one behaviour of SpecToken
MaxSetToken == 4

\* the number of times the SDK asks for a new token in one behaviour
MaxRefresh == 2

\* SetToken down to line 72: Initialize(Token) is dispatched, or the stored
\* callback is invoked, and `thrown` tells whether the invocation throws
UDolbyIOSubsystem_SetToken(U, thrown) ==
    IF U.Sdk = Null
    THEN [U EXCEPT !.AsyncTasks = @ + 1]
    ELSE IF U.RefreshTokenCb # Null
    THEN [U EXCEPT !.Invoked = Append(@, U.RefreshTokenCb),
                   !.Invoking = U.RefreshTokenCb,
                   !.Errors = IF thrown THEN @ + 1 ELSE @]
    ELSE U

\* SetToken that keeps the callback it has invoked
KeepRefreshTokenCb(U) == [U EXCEPT !.Invoking = Null]

\* line 73: RefreshTokenCb.Reset()
ResetRefreshTokenCb(U) == [U EXCEPT !.RefreshTokenCb = Null, !.Invoking = Null]

\* Initialize(Token), run by the task that SetToken dispatched; `created` tells
\* whether sdk::create returns or throws
UDolbyIOSubsystem_Initialize(U, created) ==
    LET U1 == [U EXCEPT !.AsyncTasks = @ - 1, !.Initialized = @ + 1]
    IN  IF created
        THEN [U1 EXCEPT !.Sdk = U.Created + 1,                  \* lines 81-88
                        !.Created = @ + 1,
                        !.Chains = @ + 1]                       \* line 96
        ELSE [U1 EXCEPT !.Errors = @ + 1]                       \* lines 90-94

\* the lambda given to sdk::create, lines 82-87
RefreshCallback(U) ==
    [U EXCEPT !.RefreshTokenCb = U.Requested + 1, !.Requested = @ + 1]

OnlySubsystem == UNCHANGED <<dataVars, threadVars, CppSdk, Module, Registration>>

\* the application calls SetToken (on the game thread)
SetToken(thrown) ==
    /\ Subsystem.Invoking = Null
    /\ Subsystem.Calls < MaxSetToken
    /\ Subsystem' = [UDolbyIOSubsystem_SetToken(Subsystem, thrown) EXCEPT !.Calls = @ + 1]
    /\ OnlySubsystem

\* SetToken goes on after the invocation of the callback, or its catch block
SetTokenResets ==
    /\ Subsystem.Invoking # Null
    /\ Subsystem' = ResetRefreshTokenCb(Subsystem)
    /\ OnlySubsystem

\* a dispatched AsyncTask runs Initialize(Token) on some thread
RunInitialize(created) ==
    /\ Subsystem.AsyncTasks > 0
    /\ Subsystem' = UDolbyIOSubsystem_Initialize(Subsystem, created)
    /\ OnlySubsystem

\* the SDK asks for a new token, on its own thread
RefreshRequested ==
    /\ Subsystem.Sdk # Null
    /\ Subsystem.Requested < MaxRefresh
    /\ Subsystem' = RefreshCallback(Subsystem)
    /\ OnlySubsystem

NextToken ==
    \/ \E thrown \in BOOLEAN : SetToken(thrown)
    \/ SetTokenResets
    \/ \E created \in BOOLEAN : RunInitialize(created)
    \/ RefreshRequested

SpecToken == Init /\ [][NextToken]_vars

\* C19: SetToken invokes each refresh-token callback that the SDK hands over at
\* most once: once SetToken has invoked the stored callback, whether the
\* invocation returned or threw, it clears it, and a SetToken call while the
\* SDK exists and no callback is stored does nothing.
C19_RefreshCallbackInvokedOnce ==
    [][/\ \A i, j \in 1..Len(Subsystem'.Invoked) :
              Subsystem'.Invoked[i] = Subsystem'.Invoked[j] => i = j
       /\ SetTokenResets => Subsystem'.RefreshTokenCb = Null
       /\ \A thrown \in BOOLEAN :
              (SetToken(thrown) /\ Subsystem.Sdk # Null /\ Subsystem.RefreshTokenCb = Null)
                  => Subsystem' = [Subsystem EXCEPT !.Calls = @ + 1]]_vars

\* two callbacks were invoked, one of the invocations threw, none is stored,
\* and one SetToken call found no callback to invoke
C19_Witness ==
    /\ Len(Subsystem.Invoked) = MaxRefresh
    /\ Subsystem.Created = 1
    /\ Subsystem.Errors = 1
    /\ Subsystem.RefreshTokenCb = Null
    /\ Subsystem.Invoking = Null
    /\ Subsystem.Calls > Len(Subsystem.Invoked) + 1

\* C20: whatever the sequence of SetToken calls, Initialize(Token) runs at most
\* once, the SDK is created at most once and the chain that registers the
\* event handlers is started at most once.
C20_SdkCreatedOnce ==
    /\ Subsystem.Initialized <= 1
    /\ Subsystem.Created <= 1
    /\ Subsystem.Chains <= 1

\* C24: FSdkAccess::RefreshToken calls a refresh-token callback that the SDK
\* delivered at most once: a stored callback is called with the new token, a
\* later RefreshToken without a new request of the SDK does not call it again,
\* and without a stored callback the SDK is initialized again instead.
C24_SdkAccessCallbackCalledOnce ==
    [][/\ \A i, j \in 1..Len(CppSdk'.Invoked) :
              CppSdk'.Invoked[i] = CppSdk'.Invoked[j] => i = j
       /\ \A created \in BOOLEAN :
              RefreshToken(created)
                  => IF CppSdk.RefreshTokenCb
                     THEN /\ CppSdk'.Invoked = Append(CppSdk.Invoked, CppSdk.Requested)
                          /\ CppSdk'.Sdk = CppSdk.Sdk
                          /\ CppSdk'.Status = CppSdk.Status
                     ELSE /\ CppSdk'.Invoked = CppSdk.Invoked
                          /\ CppSdk'.Sdk = created
                          /\ CppSdk'.Status = "Disconnected"]_vars

----------------------------------------------------------------------------
(* FDolbyIOModule: StartupModule loads the SDK's libraries, ShutdownModule   *)
(* frees them.  Module.Attempts lists the results of GetDllHandle in the     *)
(* order of the calls, Module.Freed the handles given to FreeDllHandle.      *)

\* the number of ShutdownModule calls in one behaviour of SpecModule
MaxShutdowns == 2

\* the libraries that StartupModule loads, lines 28-39, 43-45, 49-54
Libraries(platform) ==
    CASE platform = "Windows" ->
             <<"avutil-57.dll", "avcodec-59.dll", "dvclient.dll", "dolbyio_comms_media.dll",
               "dolbyio_comms_sdk.dll", "opencv_core451.dll", "opencv_imgproc451.dll",
               "opencv_imgcodecs451.dll", "dvdnr.dll", "dlb_vidseg_c_api.dll",
               "video_processor.dll">>
      [] platform = "Mac" ->
             <<"libdolbyio_comms_media.dylib", "libdolbyio_comms_sdk.dylib",
               "libvideo_processor.dylib">>
      [] platform = "Linux" ->
             <<"libavutil.so.57", "libavcodec.so.59", "libavformat.so.59", "libdvclient.so",
               "libdolbyio_comms_media.so", "libdolbyio_comms_sdk.so">>
      [] OTHER -> <<>>

\* LoadDll that records a library whether it was loaded or not
FDolbyIOModule_LoadDll_Always(M, Dll, loaded) ==
    [M EXCEPT !.Attempts = Append(@, [Name |-> Dll, loaded |-> loaded]),
              !.Dlls = Append(@, [Handle |-> Dll, Name |-> Dll])]

\* LoadDll; `loaded` tells whether GetDllHandle returns a handle, and the
\* handle of a library is written as the library's name
FDolbyIOModule_LoadDll(M, Dll, loaded) ==
    LET M1 == [M EXCEPT !.Attempts = Append(@, [Name |-> Dll, loaded |-> loaded])]
    IN  IF loaded
        THEN [M1 EXCEPT !.Dlls = Append(@, [Handle |-> Dll, Name |-> Dll])]
        ELSE [M1 EXCEPT !.Fatal = @ + 1]

\* the LoadDll calls of StartupModule from the k-th on; a Fatal log entry ends
\* the process if `fatalEnds`, and otherwise StartupModule goes on
RECURSIVE LoadFrom(_, _, _, _)
LoadFrom(M, k, loads, fatalEnds) ==
    IF k > Len(Libraries(M.Platform))
    THEN M
    ELSE LET M1 == FDolbyIOModule_LoadDll(M, Libraries(M.Platform)[k], loads[k])
         IN  IF ~loads[k] /\ fatalEnds
             THEN [M1 EXCEPT !.Terminated = TRUE]
             ELSE LoadFrom(M1, k + 1, loads, fatalEnds)

FDolbyIOModule_StartupModule(M, platform, loads, fatalEnds) ==
    LoadFrom([M EXCEPT !.Platform = platform], 1, loads, fatalEnds)

\* ShutdownModule that frees the libraries in the order they were loaded
RECURSIVE FDolbyIOModule_ShutdownModule_InOrder(_)
FDolbyIOModule_ShutdownModule_InOrder(M) ==
    IF M.Dlls = <<>>
    THEN M
    ELSE FDolbyIOModule_ShutdownModule_InOrder(
             [M EXCEPT !.Dlls = Tail(@), !.Freed = Append(@, Head(M.Dlls).Handle)])

\* ShutdownModule: the while loop of lines 60-65
RECURSIVE FDolbyIOModule_ShutdownModule(_)
FDolbyIOModule_ShutdownModule(M) ==
    IF Len(M.Dlls) = 0
    THEN M
    ELSE LET Dll == M.Dlls[Len(M.Dlls)]                                  \* Dlls.Pop()
         IN  FDolbyIOModule_ShutdownModule(
                 [M EXCEPT !.Dlls = SubSeq(@, 1, Len(@) - 1),
                           !.Freed = Append(@, Dll.Handle)])           \* FreeDllHandle

OnlyModule == UNCHANGED <<dataVars, threadVars, Subsystem, CppSdk, Registration>>

\* the engine starts the module
StartupModule(platform, loads, fatalEnds) ==
    /\ Module.Platform = NoPlatform
    /\ Module' = FDolbyIOModule_StartupModule(Module, platform, loads, fatalEnds)
    /\ OnlyModule

\* the engine shuts the module down
ShutdownModule ==
    /\ Module.Platform # NoPlatform
    /\ ~Module.Terminated
    /\ Module.Shutdowns < MaxShutdowns
    /\ Module' = [FDolbyIOModule_ShutdownModule(Module) EXCEPT !.Shutdowns = @ + 1]
    /\ OnlyModule

NextModule ==
    \/ \E platform \in Platforms :
           \E loads \in [1..Len(Libraries(platform)) -> BOOLEAN], fatalEnds \in BOOLEAN :
               StartupModule(platform, loads, fatalEnds)
    \/ ShutdownModule

SpecModule == Init /\ [][NextModule]_vars

WasLoaded(attempt) == attempt.loaded

\* the libraries that GetDllHandle returned a handle for, in the order of the calls
LoadedLibraries ==
    LET Loaded == SelectSeq(Module.Attempts, WasLoaded)
    IN  [i \in 1..Len(Loaded) |-> Loaded[i].Name]

Reverse(Array) == [i \in 1..Len(Array) |-> Array[Len(Array) + 1 - i]]

\* C25: the module's library list holds exactly the libraries whose load
\* succeeded, in load order, and a failed load is logged as fatal and records
\* nothing; ShutdownModule frees every recorded library exactly once, in the
\* reverse of the load order, and leaves the list empty.
C25_LibrariesLoadedAndFreed ==
    /\ Module.Fatal = Len(Module.Attempts) - Len(LoadedLibraries)
    /\ Module.Shutdowns = 0
           => /\ [i \in 1..Len(Module.Dlls) |-> Module.Dlls[i].Handle] = LoadedLibraries
              /\ Module.Freed = <<>>
    /\ Module.Shutdowns > 0
           => /\ Module.Dlls = <<>>
              /\ Module.Freed = Reverse(LoadedLibraries)

\* some libraries were loaded and one was not, and ShutdownModule ran twice
C25_Witness ==
    /\ Module.Shutdowns = 2
    /\ Len(Module.Freed) >= 3
    /\ Module.Fatal = 1
    /\ ~Module.Attempts[2].loaded

----------------------------------------------------------------------------
(* Initialize(Token), lines 96-273: the chain of asynchronous calls that     *)
(* registers the event handlers.  A chain is a record: Pending is the call   *)
(* the SDK has not completed yet, Log lists the calls completed and the      *)
(* OnInitialized broadcasts in the order they happened, Failed is the call   *)
(* that failed, Errors counts the runs of the error handler of line 273, and *)
(* Vfs is the state of the call of line 249.                                 *)

\* the number of SetToken calls in one behaviour of SpecRegistration
MaxInitialize == 2

NoCall == "none"

\* the asynchronous calls of the chain whose results the chain waits for
RegistrationSteps(platform) ==
    <<"register_component_version",                                  \* line 96
      "conference_status_updated",                                   \* line 100
      "remote_participant_added",                                    \* line 106
      "remote_participant_updated",                                  \* line 138
      "active_speaker_changed",                                      \* line 159
      "audio_levels",                                                \* line 173
      "remote_video_track_added",                                    \* line 189
      "remote_video_track_removed",                                  \* line 216
      "RegisterDeviceEventHandlers">>                                \* line 232
    \o (IF platform = "Windows"
        THEN <<"set_default_audio_device_policy">> ELSE <<>>)        \* lines 235-238
    \o (IF platform \in {"Windows", "Mac"}
        THEN <<"video_processor::create">> ELSE <<>>)                \* lines 239-246

\* line 96: the first call of the chain is made
NewChain(platform) ==
    [Platform |-> platform, Pending |-> RegistrationSteps(platform)[1], Log |-> <<>>,
     Failed |-> NoCall, Errors |-> 0, Vfs |-> NoCall]

\* the results of the call vfs_event::add_event_handler of line 249: it throws,
\* or it returns a result that the continuation drops
VfsCalls == {"thrown", "pending"}

\* the last continuation of the chain, lines 247-272
LastContinuation(C, vfs) ==
    IF vfs = "thrown"
    THEN [C EXCEPT !.Pending = NoCall, !.Vfs = vfs,
                   !.Failed = "vfs_event", !.Errors = @ + 1]         \* line 273
    ELSE [C EXCEPT !.Pending = NoCall, !.Vfs = vfs,
                   !.Log = Append(@, "OnInitialized")]               \* line 271

\* the SDK completes the pending call of chain C: its continuation runs, or, if
\* the call failed, the error handler of line 273
Continuation(C, ok, vfs) ==
    IF ~ok
    THEN [C EXCEPT !.Pending = NoCall, !.Failed = C.Pending, !.Errors = @ + 1]
    ELSE LET C1 == [C EXCEPT !.Log = Append(@, C.Pending)]
             Steps == RegistrationSteps(C.Platform)
         IN  IF Len(C1.Log) < Len(Steps)
             THEN [C1 EXCEPT !.Pending = Steps[Len(C1.Log) + 1]]
             ELSE LastContinuation(C1, vfs)

\* the SDK completes the call of line 249, whose result nothing waits for
VfsContinuation(C, ok) ==
    IF ok
    THEN [C EXCEPT !.Vfs = "registered", !.Log = Append(@, "vfs_event")]
    ELSE [C EXCEPT !.Vfs = "failed", !.Failed = "vfs_event"]

OnlyRegistration == UNCHANGED <<dataVars, threadVars, CppSdk, Module>>

\* the application calls SetToken
SetTokenCalled(thrown) ==
    /\ Subsystem.Calls < MaxInitialize
    /\ Subsystem' = [UDolbyIOSubsystem_SetToken(Subsystem, thrown) EXCEPT !.Calls = @ + 1]
    /\ UNCHANGED Registration
    /\ OnlyRegistration

\* a dispatched AsyncTask runs Initialize(Token), which starts a chain if
\* sdk::create returns; every chain of a behaviour is built for one platform
InitializeWithToken(platform, created) ==
    /\ Subsystem.AsyncTasks > 0
    /\ Registration # <<>> => platform = Registration[1].Platform
    /\ Subsystem' = UDolbyIOSubsystem_Initialize(Subsystem, created)
    /\ Registration' = IF created THEN Append(Registration, NewChain(platform))
                                  ELSE Registration
    /\ OnlyRegistration

\* the SDK completes the pending call of the c-th chain
RegistrationCompletes(c, ok, vfs) ==
    /\ c \in DOMAIN Registration
    /\ Registration[c].Pending # NoCall
    /\ Registration' = [Registration EXCEPT ![c] = Continuation(@, ok, vfs)]
    /\ UNCHANGED Subsystem
    /\ OnlyRegistration

\* the SDK completes the call of line 249 of the c-th chain
VfsCompletes(c, ok) ==
    /\ c \in DOMAIN Registration
    /\ Registration[c].Vfs = "pending"
    /\ Registration' = [Registration EXCEPT ![c] = VfsContinuation(@, ok)]
    /\ UNCHANGED Subsystem
    /\ OnlyRegistration

NextRegistration ==
    \/ \E thrown \in BOOLEAN : SetTokenCalled(thrown)
    \/ \E platform \in Platforms, created \in BOOLEAN : InitializeWithToken(platform, created)
    \/ \E c \in 1..MaxInitialize, ok \in BOOLEAN, vfs \in VfsCalls : RegistrationCompletes(c, ok, vfs)
    \/ \E c \in 1..MaxInitialize, ok \in BOOLEAN : VfsCompletes(c, ok)

SpecRegistration == Init /\ [][NextRegistration]_vars

\* every registration of a chain, in the order of the chain
AllRegistrations(platform) == RegistrationSteps(platform) \o <<"vfs_event">>

\* C21: a chain broadcasts OnInitialized only after every registration has
\* completed, in order: the component version, the conference-status,
\* participant-added, participant-updated, active-speaker, audio-level,
\* track-added and track-removed handlers, the device handlers, and then the
\* handler of the track enabled and disabled events; a chain one of whose
\* steps failed never broadcasts it, and without an SDK there is no chain.
C21_InitializedAfterRegistration ==
    /\ Len(Registration) = Subsystem.Created
    /\ \A c \in DOMAIN Registration :
           LET C == Registration[c]
           IN  /\ \A i \in DOMAIN C.Log :
                      C.Log[i] = "OnInitialized"
                          => SubSeq(C.Log, 1, i - 1) = AllRegistrations(C.Platform)
               /\ C.Failed # NoCall => \A i \in DOMAIN C.Log : C.Log[i] # "OnInitialized"

----------------------------------------------------------------------------
(* BindMaterial and UnbindMaterial, lines 327-349: the application binds a   *)
(* material to the sink of a track, to show the track's video on it.         *)

\* the UMaterialInstanceDynamic objects of the application
Materials == {"m1", "m2"}

\* the track IDs that the application passes
VideoTrackIDs == RemoteTrackIDs \cup {LocalCameraTrackID, LocalScreenshareTrackID}

\* BindMaterial without the loop of lines 329-335
UDolbyIOSubsystem_BindMaterial_NoUnbind(S, Material, VideoTrackID) ==
    IF Contains(S.VideoSinks, VideoTrackID)
    THEN [S EXCEPT !.VideoSinks[VideoTrackID] = FVideoSink_BindMaterial(@, Material)]
    ELSE S

UDolbyIOSubsystem_BindMaterial(S, Material, VideoTrackID) ==
    LET S1 == [S EXCEPT !.VideoSinks =
                   [Key \in DOMAIN @ |->
                       IF Key # VideoTrackID
                       THEN FVideoSink_UnbindMaterial(@[Key], Material)
                       ELSE @[Key]]]                                   \* lines 329-335
    IN  IF Contains(S1.VideoSinks, VideoTrackID)                       \* line 337
        THEN [S1 EXCEPT !.VideoSinks[VideoTrackID] = FVideoSink_BindMaterial(@, Material)]
        ELSE S1

UDolbyIOSubsystem_UnbindMaterial(S, Material, VideoTrackID) ==
    IF Contains(S.VideoSinks, VideoTrackID)
    THEN [S EXCEPT !.VideoSinks[VideoTrackID] = FVideoSink_UnbindMaterial(@, Material)]
    ELSE S

BindMaterial(Material, VideoTrackID) ==
    /\ UNCHANGED <<threadVars, otherVars>>
    /\ ~Failed
    /\ Becomes(UDolbyIOSubsystem_BindMaterial(State, Material, VideoTrackID))

UnbindMaterial(Material, VideoTrackID) ==
    /\ UNCHANGED <<threadVars, otherVars>>
    /\ ~Failed
    /\ Becomes(UDolbyIOSubsystem_UnbindMaterial(State, Material, VideoTrackID))

NextMaterials ==
    \/ \E VideoTrack \in VideoTracks : TrackAdded(VideoTrack)
    \/ \E VideoTrack \in VideoTracks : TrackRemoved(VideoTrack)
    \/ \E TrackID \in RemoteTrackIDs : TextureCreated(TrackID)
    \/ \E Material \in Materials, VideoTrackID \in VideoTrackIDs :
           BindMaterial(Material, VideoTrackID)
    \/ \E Material \in Materials, VideoTrackID \in VideoTrackIDs :
           UnbindMaterial(Material, VideoTrackID)

SpecMaterials == Init /\ [][NextMaterials]_vars

\* the sinks of the map that Material is bound to, by their keys
SinksOf(Sinks, Material) == {Key \in DOMAIN Sinks : Material \in Sinks[Key].Materials}

\* the removed sinks that Material is still bound to, by their places in RemovedSinks
RemovedSinksOf(Removed, Material) == {i \in DOMAIN Removed : Material \in Removed[i].Materials}

\* C22: whatever BindMaterial and UnbindMaterial calls and track-removed events
\* happened, a material is bound to at most one video sink; right after
\* BindMaterial(M, T), M is bound to the sink of T and to no other sink if T
\* has a sink, and to no sink at all if T has none.
C22_MaterialOnOneSink ==
    [][/\ \A Material \in Materials :
              Cardinality(SinksOf(VideoSinks', Material))
                  + Cardinality(RemovedSinksOf(RemovedSinks', Material)) <= 1
       /\ \A Material \in Materials, VideoTrackID \in VideoTrackIDs :
              BindMaterial(Material, VideoTrackID)
                  => /\ SinksOf(VideoSinks', Material)
                            = IF Contains(VideoSinks, VideoTrackID) THEN {VideoTrackID} ELSE {}
                     /\ RemovedSinksOf(RemovedSinks', Material) = {}]_vars

\* one material was moved to the sink of a remote track after the other sink
\* it was bound to was removed, and the other material is on the local camera
C22_Witness ==
    /\ \E i \in DOMAIN RemovedSinks : RemovedSinks[i].Unbound = {"m1"}
    /\ \E TrackID \in RemoteTrackIDs : SinksOf(VideoSinks, "m1") = {TrackID}
    /\ SinksOf(VideoSinks, "m2") = {LocalCameraTrackID}

\* C23: the handler of remote-video-track-removed for track T unbinds every
\* material from the sink of T and removes the sink from the map, so that
\* GetTexture(T) is null until a track-added event announces T again; the
\* sinks of the local camera and of the local screenshare, and of every other
\* track, are as they were.
C23_RemovedTrackHasNoSink ==
    [][/\ \A VideoTrack \in VideoTracks :
              TrackRemoved(VideoTrack)
                  => /\ ~Contains(VideoSinks', VideoTrack.TrackID)
                     /\ \A i \in DOMAIN RemovedSinks' : RemovedSinks'[i].Materials = {}
                     /\ Contains(VideoSinks, VideoTrack.TrackID)
                            => /\ Len(RemovedSinks') = Len(RemovedSinks) + 1
                               /\ RemovedSinks'[Len(RemovedSinks')].Unbound
                                      = VideoSinks[VideoTrack.TrackID].Materials
                     /\ \A Key \in DOMAIN VideoSinks \ {VideoTrack.TrackID} :
                            Contains(VideoSinks', Key) /\ VideoSinks'[Key] = VideoSinks[Key]
       /\ \A TrackID \in RemoteTrackIDs :
              /\ ~Contains(VideoSinks', TrackID) => ~GetTexture(State', TrackID)
              /\ (~Contains(VideoSinks, TrackID) /\ Contains(VideoSinks', TrackID))
                     => \E VideoTrack \in VideoTracks :
                            VideoTrack.TrackID = TrackID /\ TrackAdded(VideoTrack)
       /\ {LocalCameraTrackID, LocalScreenshareTrackID} \subseteq DOMAIN VideoSinks']_vars

\* a track whose sink showed on both materials was removed, which unbound
\* them, and one of the materials is bound to the local screenshare
C23_Witness ==
    /\ \E i \in DOMAIN RemovedSinks :
           /\ RemovedSinks[i].Unbound = Materials
           /\ ~Contains(VideoSinks, RemovedSinks[i].TrackID)
           /\ ~GetTexture(State, RemovedSinks[i].TrackID)
    /\ \E i \in DOMAIN Trace : Trace[i].kind = "broadcast" /\ Trace[i].name = "VideoTrackRemoved"
    /\ VideoSinks[LocalScreenshareTrackID].Materials = {"m2"}

====
